---- MODULE Spec2Model ----
(***************************************************************************)
(* Model of the exploration session lifecycle of the parser repository:    *)
(* ExplorationSession (app/models/exploration_session.py), the             *)
(* ExplorationOrchestrator (app/services/exploration_orchestrator.py), the *)
(* CoordinatorAgent's step selection (app/agents/coordinator_agent.py) and *)
(* the approval pipeline operations of ExplorationService                  *)
(* (app/services/exploration_service.py, approval_pipeline.py).            *)
(*                                                                         *)
(* Spec      : caller threads invoking start/pause/resume/stop on one      *)
(*             orchestrator; every method body runs under the              *)
(*             orchestrator's non-reentrant threading.Lock.                *)
(* FairSpec  : Spec with weak fairness on every thread's internal steps.   *)
(* PipeSpec  : the approval pipeline operations on one session, with the   *)
(*             background worker of generate_scraper.                      *)
(* GenSpec   : one run of ApprovalPipeline.generate_and_test_scraper, one  *)
(*             step per awaited call (generate, test, refine).             *)
(* StoreSpec : the ExplorationSessionStore with its own lock: starting an  *)
(*             exploration, deleting a session and reading its status      *)
(*             while the background thread runs the loop.                  *)
(***************************************************************************)
EXTENDS Integers, Sequences, FiniteSets, TLC

\* ---------------------------------------------------------------- bounds
Threads == {"t1", "t2"}
NoThread == "none"
MaxCalls == 3
MaxIterChoices == {2, 10}
MaxGates == 3
MaxWorkers == 2
MaxIterArg == 2
MaxGenIter == 7
MaxAssertions == 2
MaxStoreCalls == 2
MaxTesters == 1
MaxSvcCalls == 3
MaxInstances == 2

\* ------------------------------------------------------- pipeline inputs
Actors == {"alice", "bob"}
ApprovalActions == {"approve", "reject"}
TestStatuses == {"passed", "failed", "error"}

\* ------------------------------------------------------------ store inputs
\* the id of the session create_session has stored, and an id it never issued
KnownId == "s1"
UnknownId == "s2"
SessionIds == {KnownId, UnknownId}

\* ------------------------------------------------------------ plan inputs
Step(id, type, deps) == [step_id |-> id, type |-> type, dependencies |-> deps]

\* CoordinatorAgent._break_down_objectives with no keyword in the objectives
BasicPlan ==
    << Step(1, "navigation", {}), Step(2, "analysis", {1}), Step(3, "analysis", {1}) >>
\* three independent steps (the AI-merged steps carry arbitrary dependencies)
NoDepsPlan ==
    << Step(1, "navigation", {}), Step(2, "analysis", {}), Step(3, "extraction", {}) >>
\* step 2 depends on the later step 3
ForwardRefPlan ==
    << Step(1, "navigation", {}), Step(2, "analysis", {3}), Step(3, "extraction", {}) >>
\* steps 2 and 3 depend on each other: neither can ever become eligible
CyclicPlan ==
    << Step(1, "navigation", {}), Step(2, "analysis", {3}), Step(3, "extraction", {2}) >>
Plans == {BasicPlan, NoDepsPlan, ForwardRefPlan, CyclicPlan}
NoPlan == << >>

VARIABLES
    \* ExplorationSession
    status, started_at, completed_at, current_step, total_steps,
    progress_percentage, action_logs, max_iterations,
    approval_gates, generated_scrapers, current_scraper,
    \* ExplorationOrchestrator
    is_running, current_loop, completed_steps, lock, browser,
    \* locals of the thread inside start_exploration
    plan, step,
    \* caller threads
    pc, result, ctx, calls,
    \* history
    stopped, dispatched,
    \* approval pipeline (service level)
    workers, last_call,
    \* ExplorationSessionStore and the threads inside its methods
    sessions, orchestrators, store_lock, store_pc, store_arg, store_ret,
    reader_pc,
    \* locals of generate_and_test_scraper
    gen_scraper, gen_iteration, gen_max_iterations, gen_pc, gen_failed, test_run,
    \* ExplorationService.test_scraper: the run_test threads not yet finished
    testers,
    \* ScraperTester.test_scraper: position, temporary script file, child
    \* process and result.status
    tester_pc, temp_file, process, tester_status,
    \* ExplorationService control calls: the orchestrators created for the
    \* stored session, the registry entry, the caller threads and the client
    \* of another session
    instances, registry, svc_pc, svc_ref, svc_calls, other_pc

sessionVars == << status, started_at, completed_at, current_step, total_steps,
                  progress_percentage, action_logs, max_iterations >>
genVars == << gen_scraper, gen_iteration, gen_max_iterations, gen_pc, gen_failed,
              test_run >>
storeVars == << sessions, orchestrators, store_lock, store_pc, store_arg, store_ret,
                reader_pc >>
testVars == << testers, tester_pc, temp_file, process, tester_status >>
svcVars == << instances, registry, svc_pc, svc_ref, svc_calls, other_pc >>
pipeVars == << approval_gates, generated_scrapers, current_scraper, workers, last_call,
               genVars, storeVars, testVars, svcVars >>
orchVars == << is_running, current_loop, completed_steps, lock, browser,
               plan, step, pc, result, ctx, calls, stopped, dispatched >>
vars == << sessionVars, pipeVars, orchVars >>

Terminal == {"completed", "failed", "cancelled"}

\* ------------------------------------------------------ ExplorationSession
ActionLog(type, description, details) ==
    [action_type |-> type, description |-> description, details |-> details]

\* update_status stamping started_at on every entry to running
update_status_restamps(new_status) ==
    /\ status' = new_status
    /\ started_at' = IF new_status = "running" THEN started_at + 1 ELSE started_at
    /\ completed_at' = IF new_status \in Terminal THEN completed_at + 1 ELSE completed_at

\* ExplorationSession.update_status: the new started_at / completed_at values.
\* Timestamps are modelled as write counters: 0 is None, every write of
\* completed_at yields a fresh value.
update_status(new_status) ==
    /\ status' = new_status
    /\ started_at' = IF new_status = "running" /\ started_at = 0 THEN 1 ELSE started_at
    /\ completed_at' = IF new_status \in Terminal THEN completed_at + 1 ELSE completed_at

\* ExplorationSession.update_progress: percentage, floored to an integer
Percentage(cur, total) == IF total > 0 THEN (cur * 100) \div total ELSE 0

\* update_progress that leaves the stored percentage alone
update_progress_stale(cur, total) ==
    /\ current_step' = cur
    /\ total_steps' = total
    /\ UNCHANGED progress_percentage

update_progress(cur, total) ==
    /\ current_step' = cur
    /\ total_steps' = total
    /\ progress_percentage' = Percentage(cur, total)

\* --------------------------------------------------------- CoordinatorAgent
InSeq(x, s) == \E i \in 1..Len(s) : s[i] = x

\* pending_steps = [s for s in plan["steps"] if s["step_id"] not in completed]
PendingIdx(p, completed) ==
    {i \in 1..Len(p) : ~InSeq(p[i].step_id, completed)}

\* eligibility that ignores the step's dependencies
EligibleIgnoresDependencies(st, completed) == st.dependencies = st.dependencies

\* deps_satisfied = all(dep in completed for dep in dependencies)
Eligible(st, completed) == \A d \in st.dependencies : InSeq(d, completed)

\* select_next_action taking the last pending eligible step instead of the first
select_next_action_last(p, completed) ==
    LET cand == {i \in PendingIdx(p, completed) : Eligible(p[i], completed)}
    IN IF cand = {} THEN 0 ELSE CHOOSE i \in cand : \A j \in cand : j <= i

\* CoordinatorAgent.select_next_action: index in the plan of the first pending
\* step whose dependencies are all completed, 0 when there is none
select_next_action(p, completed) ==
    LET cand == {i \in PendingIdx(p, completed) : Eligible(p[i], completed)}
    IN IF cand = {} THEN 0 ELSE CHOOSE i \in cand : \A j \in cand : i <= j

\* CoordinatorAgent._determine_agent_for_step
determine_agent_for_step(st) ==
    IF st.type \in {"navigation", "interaction"} THEN "browser"
    ELSE IF st.type \in {"extraction", "analysis"} THEN "analyst"
    ELSE "browser"

\* ------------------------------------------------------------ approval gates
NoGate == [approval_type |-> "none", status |-> "none", approved_by |-> "none"]

\* ApprovalGate(...).to_dict() of a freshly created gate
NewGate(type) == [approval_type |-> type, status |-> "pending", approved_by |-> "none"]

\* approval_map = {gate["approval_type"]: gate for gate in session.approval_gates}
\* followed by approval_map.get(type): a later gate of a type replaces an earlier one
approval_map(gates, type) ==
    LET idx == {i \in 1..Len(gates) : gates[i].approval_type = type}
    IN IF idx = {} THEN NoGate ELSE gates[CHOOSE i \in idx : \A j \in idx : j <= i]

\* ApprovalPipeline.check_approval_sequencing
check_approval_sequencing(gates, required_approval) ==
    LET exploration_approval == approval_map(gates, "exploration_summary")
        scraper_approval == approval_map(gates, "scraper_generation")
    IN IF required_approval = "scraper_generation"
       THEN IF exploration_approval = NoGate
            THEN [valid |-> FALSE, message |-> "Exploration summary must be created first"]
            ELSE IF exploration_approval.status # "approved"
            THEN [valid |-> FALSE,
                  message |-> "Exploration summary must be approved before scraper generation"]
            ELSE [valid |-> TRUE, message |-> "Approval sequencing valid"]
       ELSE IF required_approval = "final_delivery"
       THEN IF exploration_approval = NoGate \/ exploration_approval.status # "approved"
            THEN [valid |-> FALSE, message |-> "Exploration summary must be approved first"]
            ELSE IF scraper_approval = NoGate \/ scraper_approval.status # "approved"
            THEN [valid |-> FALSE,
                  message |-> "Scraper generation must be approved before final delivery"]
            ELSE [valid |-> TRUE, message |-> "Approval sequencing valid"]
       ELSE [valid |-> TRUE, message |-> "Approval sequencing valid"]

\* the loop `for gate_dict in session.approval_gates: if type matches: break`
\* of approve_exploration / approve_scraper: index of the first gate of a type
FirstGateIdx(gates, type) ==
    LET idx == {i \in 1..Len(gates) : gates[i].approval_type = type}
    IN IF idx = {} THEN 0 ELSE CHOOSE i \in idx : \A j \in idx : i <= j

\* the status / approved_by assignments of approve_exploration and approve_scraper
Decide(gate, action, actor) ==
    [gate EXCEPT !.status = IF action = "approve" THEN "approved" ELSE "rejected",
                 !.approved_by = actor]

\* --------------------------------------------------------- generated scraper
\* session.current_scraper = None
NoScraper ==
    [scraper_id |-> 0, version |-> 0, status |-> "none", iteration_count |-> 0,
     max_iterations |-> 0, test_results |-> << >>, last_test_status |-> "none"]

\* what the last synchronous pipeline call was and what it returned;
\* documented is TRUE when the call was made in the state the documented
\* workflow reaches before it (see WorkflowReadyForScraperApproval)
CallRecord(op, action, actor, documented, res) ==
    [op |-> op, action |-> action, actor |-> actor, documented |-> documented,
     result |-> res]

\* GeneratedScraper.max_iterations, the dataclass default
ScraperMaxIterations == 5

\* ScraperGenerator.generate_scraper_code: a new GeneratedScraper with a fresh
\* scraper_id, COMPLETED when the LLM call succeeded and FAILED when it raised
generate_scraper_code(id, gen_ok) ==
    [scraper_id |-> id,
     version |-> 1,
     status |-> IF gen_ok THEN "completed" ELSE "failed",
     iteration_count |-> 0,
     max_iterations |-> ScraperMaxIterations,
     test_results |-> << >>,
     last_test_status |-> "not_run"]

\* add_test_result keeping only the latest result
add_test_result_latest_only(scraper, test_status) ==
    [scraper EXCEPT !.test_results = << test_status >>,
                    !.last_test_status = test_status]

\* GeneratedScraper.add_test_result
add_test_result(scraper, test_status) ==
    [scraper EXCEPT !.test_results = Append(@, test_status),
                    !.last_test_status = test_status]

\* GeneratedScraper.increment_version
increment_version(scraper) ==
    [scraper EXCEPT !.version = @ + 1, !.iteration_count = @ + 1]

\* refine_scraper with the iteration_count of the refined artifact left at 0
refine_scraper_fresh_count(scraper, gen_ok) ==
    IF scraper.iteration_count >= scraper.max_iterations
    THEN [scraper EXCEPT !.status = "failed"]
    ELSE [generate_scraper_code(scraper.scraper_id, gen_ok) EXCEPT
             !.version = scraper.version + 1,
             !.test_results = scraper.test_results]

\* ScraperGenerator.refine_scraper
refine_scraper(scraper, gen_ok) ==
    IF scraper.iteration_count >= scraper.max_iterations
    THEN [scraper EXCEPT !.status = "failed"]
    ELSE [generate_scraper_code(scraper.scraper_id, gen_ok) EXCEPT
             !.version = scraper.version + 1,
             !.iteration_count = scraper.iteration_count + 1,
             !.test_results = scraper.test_results]

\* the for loop of ApprovalPipeline.generate_and_test_scraper from `iteration`
\* on; tests[i] is the status of the i-th test run, gens[i] whether the i-th
\* code generation succeeded
RECURSIVE TestAndRefine(_, _, _, _, _)
TestAndRefine(scraper, iteration, max_iter, gens, tests) ==
    IF iteration >= max_iter THEN scraper
    ELSE LET tested == add_test_result(scraper, tests[iteration + 1])
         IN IF tests[iteration + 1] = "passed"
            THEN [tested EXCEPT !.status = "completed"]
            ELSE IF iteration < max_iter - 1
            THEN LET refined == refine_scraper(tested, gens[iteration + 2])
                 IN IF refined.status = "failed" THEN refined
                    ELSE TestAndRefine(refined, iteration + 1, max_iter, gens, tests)
            ELSE [tested EXCEPT !.status = "failed"]

\* ApprovalPipeline.generate_and_test_scraper
generate_and_test_scraper(id, max_iter, gens, tests) ==
    LET scraper == generate_scraper_code(id, gens[1])
    IN IF scraper.status = "failed" THEN scraper
       ELSE TestAndRefine(scraper, 0, max_iter, gens, tests)

\* ------------------------------------------------- ScraperTester.test_scraper
\* one run of the scraper subprocess: whether it timed out, its exit code, what
\* it wrote to stdout (nothing, a JSON document, text that is not JSON, bytes
\* that are not UTF-8) and the outcome of each assertion
AssertionOutcomes == UNION {[1..n -> BOOLEAN] : n \in 1..MaxAssertions}
TestRuns ==
    [timed_out : BOOLEAN, returncode : {0, 1},
     stdout : {"empty", "json", "invalid", "undecodable"},
     assertions : AssertionOutcomes]
NoRun == [timed_out |-> FALSE, returncode |-> 0, stdout |-> "none", assertions |-> << >>]

\* ScraperTester.test_scraper: the status of the returned ScraperTestResult
test_scraper(run) ==
    LET error_message == run.stdout = "invalid"
        assertions_failed ==
            Cardinality({i \in 1..Len(run.assertions) : ~run.assertions[i]})
    IN IF run.timed_out THEN "error"
       ELSE IF run.stdout = "undecodable" THEN "error"
       ELSE IF run.returncode # 0 THEN "error"
       ELSE IF error_message THEN "error"
       ELSE IF assertions_failed > 0 THEN "failed"
       ELSE "passed"

\* ------------------------------------------------- ExplorationOrchestrator
statusVars == << status, started_at, completed_at >>
progressVars == << current_step, total_steps, progress_percentage >>

InLoop(u) == pc[u] \in {"plan", "loop", "exec", "synth"}

\* what the orchestrator is doing at the moment a caller invokes a method:
\* "inflight" a step's capability call is executing and further plan steps are
\* pending behind it, "running" an exploration loop is running, "idle" otherwise
Context ==
    IF \E u \in Threads : pc[u] = "exec" /\ Cardinality(PendingIdx(plan, completed_steps)) > 1
    THEN "inflight"
    ELSE IF \E u \in Threads : InLoop(u) THEN "running"
    ELSE "idle"

\* a caller thread invokes start_exploration / pause_exploration /
\* resume_exploration / stop_exploration; the body begins at `with self.lock`
Call(t, op) ==
    /\ pc[t] = "idle"
    /\ calls < MaxCalls
    /\ calls' = calls + 1
    /\ pc' = [pc EXCEPT ![t] = op]
    /\ result' = [result EXCEPT ![t] = "pending"]
    /\ ctx' = [ctx EXCEPT ![t] = Context]
    /\ UNCHANGED << sessionVars, pipeVars, is_running, current_loop, completed_steps,
                    lock, browser, plan, step, stopped, dispatched >>

\* the except clause without the finally clause's is_running = False
FailKeepsRunning(t) ==
    /\ update_status("failed")
    /\ action_logs' = Append(action_logs, ActionLog("error", "Exploration session failed", "none"))
    /\ result' = [result EXCEPT ![t] = "failed"]
    /\ is_running' = TRUE
    /\ browser' = "closed"
    /\ lock' = NoThread
    /\ pc' = [pc EXCEPT ![t] = "idle"]

\* the except / finally clauses of start_exploration
Fail(t) ==
    /\ update_status("failed")
    /\ action_logs' = Append(action_logs, ActionLog("error", "Exploration session failed", "none"))
    /\ result' = [result EXCEPT ![t] = "failed"]
    /\ is_running' = FALSE
    /\ browser' = "closed"
    /\ lock' = NoThread
    /\ pc' = [pc EXCEPT ![t] = "idle"]

\* BrowserAgent.initialize_browser: the agent state it leaves (a session was
\* created, browser-use is not installed, or creating the session raised)
BrowserInitStates == {"initialized", "stub_mode", "error"}

\* start_exploration, from the acquisition of the lock to initialize_browser
StartEnter(t) ==
    /\ pc[t] = "start_lock"
    /\ lock = NoThread
    /\ IF is_running
       THEN /\ result' = [result EXCEPT ![t] = "already_running"]
            /\ pc' = [pc EXCEPT ![t] = "idle"]
            /\ UNCHANGED << sessionVars, is_running, lock, browser, stopped, dispatched >>
       ELSE /\ lock' = t
            /\ is_running' = TRUE
            /\ update_status("running")
            /\ action_logs' = Append(action_logs,
                   ActionLog("plan_creation", "Exploration session started", "none"))
            /\ browser' \in BrowserInitStates
            /\ stopped' = FALSE
            /\ dispatched' = << >>
            /\ pc' = [pc EXCEPT ![t] = "plan"]
            /\ UNCHANGED << progressVars, max_iterations, result >>
    /\ UNCHANGED << pipeVars, current_loop, completed_steps, plan, step, ctx, calls >>

\* create_exploration_plan, the plan log, update_progress(0, n) and the entry
\* of _run_exploration_loop; a raised exception takes the except clause
CreatePlan(t) ==
    /\ pc[t] = "plan"
    /\ \/ \E p \in Plans :
            /\ plan' = p
            /\ action_logs' = Append(action_logs,
                   ActionLog("plan_creation", "Exploration plan created", "none"))
            /\ update_progress(0, Len(p))
            /\ current_loop' = 0
            /\ pc' = [pc EXCEPT ![t] = "loop"]
            /\ UNCHANGED << statusVars, is_running, lock, browser, result >>
       \/ /\ Fail(t)
          /\ UNCHANGED << progressVars, plan, current_loop >>
    /\ UNCHANGED << max_iterations, pipeVars, completed_steps, step, ctx, calls, stopped,
                    dispatched >>

\* the while guard stopping one step short of the plan
LoopGuardShort ==
    /\ current_loop < max_iterations
    /\ is_running
    /\ current_loop < Len(plan) - 1

\* the while guard without the plan-length bound
LoopGuardNoPlanBound ==
    /\ current_loop < max_iterations
    /\ is_running

\* the guard of the while loop of _run_exploration_loop
LoopGuard ==
    /\ current_loop < max_iterations
    /\ is_running
    /\ current_loop < Len(plan)

\* one evaluation of the while guard and, inside the loop, select_next_action
LoopHead(t) ==
    /\ pc[t] = "loop"
    /\ IF LoopGuard
       THEN /\ current_loop' = current_loop + 1
            /\ LET i == select_next_action(plan, completed_steps)
               IN IF i = 0
                  THEN /\ pc' = [pc EXCEPT ![t] = "synth"]
                       /\ UNCHANGED << step, dispatched >>
                  ELSE /\ pc' = [pc EXCEPT ![t] = "exec"]
                       /\ step' = i
                       /\ dispatched' = Append(dispatched, plan[i].step_id)
       ELSE /\ pc' = [pc EXCEPT ![t] = "synth"]
            /\ UNCHANGED << current_loop, step, dispatched >>
    /\ UNCHANGED << sessionVars, pipeVars, is_running, completed_steps, lock, browser,
                    plan, result, ctx, calls, stopped >>

\* results a capability call can produce for a step: the browser agent returns
\* success or failure, the analyst returns its analysis; either may raise
Outcomes(st) ==
    IF determine_agent_for_step(st) = "browser" THEN {"ok", "fail", "raise"}
    ELSE {"ok", "raise"}

\* the logs _execute_step appends itself (only the analyst step logs)
StepLogs(st) ==
    IF determine_agent_for_step(st) = "analyst"
    THEN << ActionLog("analysis", "Analysis step completed", "none") >>
    ELSE << >>

\* _execute_step and the bookkeeping that follows it in the loop body
ExecStep(t) ==
    /\ pc[t] = "exec"
    /\ \E o \in Outcomes(plan[step]) :
         IF o = "raise"
         THEN /\ Fail(t)
              /\ UNCHANGED << progressVars, completed_steps >>
         ELSE /\ completed_steps' = Append(completed_steps, plan[step].step_id)
              /\ update_progress(Len(completed_steps) + 1, Len(plan))
              /\ action_logs' = action_logs \o StepLogs(plan[step]) \o
                    << ActionLog("analysis", "Iteration completed", o) >>
              /\ pc' = [pc EXCEPT ![t] = "loop"]
              /\ UNCHANGED << statusVars, is_running, lock, browser, result >>
    /\ UNCHANGED << max_iterations, pipeVars, current_loop, plan, step, ctx, calls, stopped,
                    dispatched >>

\* the success path without browser_agent.close()
SynthLeavesBrowser(t) ==
    /\ pc[t] = "synth"
    /\ update_status("completed")
    /\ update_progress(total_steps, total_steps)
    /\ action_logs' = action_logs \o
          << ActionLog("analysis", "Final findings synthesis completed", "none"),
             ActionLog("analysis", "Exploration session completed", "none") >>
    /\ result' = [result EXCEPT ![t] = "completed"]
    /\ is_running' = FALSE
    /\ lock' = NoThread
    /\ pc' = [pc EXCEPT ![t] = "idle"]
    /\ UNCHANGED << max_iterations, pipeVars, current_loop, completed_steps, plan, step,
                    ctx, calls, stopped, dispatched, browser >>

\* the synthesis at the end of _run_exploration_loop, then the completion and
\* the finally clause of start_exploration
Synth(t) ==
    /\ pc[t] = "synth"
    /\ update_status("completed")
    /\ update_progress(total_steps, total_steps)
    /\ action_logs' = action_logs \o
          << ActionLog("analysis", "Final findings synthesis completed", "none"),
             ActionLog("analysis", "Exploration session completed", "none") >>
    /\ result' = [result EXCEPT ![t] = "completed"]
    /\ is_running' = FALSE
    /\ browser' = "closed"
    /\ lock' = NoThread
    /\ pc' = [pc EXCEPT ![t] = "idle"]
    /\ UNCHANGED << max_iterations, pipeVars, current_loop, completed_steps, plan, step,
                    ctx, calls, stopped, dispatched >>

\* pause_exploration
PauseBody(t) ==
    /\ pc[t] = "pause_lock"
    /\ lock = NoThread
    /\ is_running' = FALSE
    /\ update_status("paused")
    /\ action_logs' = Append(action_logs,
           ActionLog("plan_creation", "Exploration session paused", "none"))
    /\ result' = [result EXCEPT ![t] = "paused"]
    /\ pc' = [pc EXCEPT ![t] = "idle"]
    /\ UNCHANGED << progressVars, max_iterations, pipeVars, current_loop, completed_steps,
                    lock, browser, plan, step, ctx, calls, stopped, dispatched >>

\* resume_exploration without the status check
ResumeBodyUnchecked(t) ==
    /\ pc[t] = "resume_lock"
    /\ lock = NoThread
    /\ lock' = t
    /\ is_running' = TRUE
    /\ update_status("running")
    /\ action_logs' = Append(action_logs,
           ActionLog("plan_creation", "Exploration session resumed", "none"))
    /\ pc' = [pc EXCEPT ![t] = "start_lock"]
    /\ UNCHANGED << progressVars, max_iterations, result >>
    /\ UNCHANGED << pipeVars, current_loop, completed_steps, browser, plan, step,
                    ctx, calls, stopped, dispatched >>

\* resume_exploration: on a paused session it keeps the lock and calls
\* self.start_exploration(), whose first statement acquires the same lock
ResumeBody(t) ==
    /\ pc[t] = "resume_lock"
    /\ lock = NoThread
    /\ IF status # "paused"
       THEN /\ result' = [result EXCEPT ![t] = "not_paused"]
            /\ pc' = [pc EXCEPT ![t] = "idle"]
            /\ UNCHANGED << sessionVars, is_running, lock >>
       ELSE /\ lock' = t
            /\ is_running' = TRUE
            /\ update_status("running")
            /\ action_logs' = Append(action_logs,
                   ActionLog("plan_creation", "Exploration session resumed", "none"))
            /\ pc' = [pc EXCEPT ![t] = "start_lock"]
            /\ UNCHANGED << progressVars, max_iterations, result >>
    /\ UNCHANGED << pipeVars, current_loop, completed_steps, browser, plan, step,
                    ctx, calls, stopped, dispatched >>

\* stop_exploration
StopBody(t) ==
    /\ pc[t] = "stop_lock"
    /\ lock = NoThread
    /\ is_running' = FALSE
    /\ update_status("cancelled")
    /\ browser' = "closed"
    /\ action_logs' = Append(action_logs,
           ActionLog("error", "Exploration session stopped by user", "none"))
    /\ result' = [result EXCEPT ![t] = "cancelled"]
    /\ stopped' = TRUE
    /\ pc' = [pc EXCEPT ![t] = "idle"]
    /\ UNCHANGED << progressVars, max_iterations, pipeVars, current_loop, completed_steps,
                    lock, plan, step, ctx, calls, dispatched >>

\* the steps a thread takes inside a method it has invoked
Internal(t) ==
    \/ StartEnter(t)
    \/ CreatePlan(t)
    \/ LoopHead(t)
    \/ ExecStep(t)
    \/ Synth(t)
    \/ PauseBody(t)
    \/ ResumeBody(t)
    \/ StopBody(t)

Init ==
    /\ status = "created"
    /\ started_at = 0
    /\ completed_at = 0
    /\ current_step = 0
    /\ total_steps = 0
    /\ progress_percentage = 0
    /\ action_logs = << >>
    /\ max_iterations \in MaxIterChoices
    /\ approval_gates = << >>
    /\ generated_scrapers = << >>
    /\ current_scraper = NoScraper
    /\ workers = << >>
    /\ last_call = CallRecord("none", "none", "none", FALSE, "none")
    /\ is_running = FALSE
    /\ current_loop = 0
    /\ completed_steps = << >>
    /\ lock = NoThread
    /\ browser = "idle"
    /\ plan = NoPlan
    /\ step = 0
    /\ pc = [t \in Threads |-> "idle"]
    /\ result = [t \in Threads |-> "none"]
    /\ ctx = [t \in Threads |-> "idle"]
    /\ calls = 0
    /\ stopped = FALSE
    /\ dispatched = << >>
    /\ gen_scraper = NoScraper
    /\ gen_iteration = 0
    /\ gen_max_iterations = 0
    /\ gen_pc = "idle"
    /\ gen_failed = FALSE
    /\ test_run = NoRun
    /\ sessions = {KnownId}
    /\ orchestrators = {}
    /\ store_lock = NoThread
    /\ store_pc = [t \in Threads |-> "idle"]
    /\ store_arg = [t \in Threads |-> "none"]
    /\ store_ret = [t \in Threads |-> "none"]
    /\ reader_pc = "idle"
    /\ testers = 0
    /\ tester_pc = "idle"
    /\ temp_file = "none"
    /\ process = "none"
    /\ tester_status = "not_run"
    /\ instances = << >>
    /\ registry = 0
    /\ svc_pc = [t \in Threads |-> "idle"]
    /\ svc_ref = [t \in Threads |-> 0]
    /\ svc_calls = 0
    /\ other_pc = "idle"

Next ==
    \/ \E t \in Threads : \E op \in {"start_lock", "pause_lock", "resume_lock", "stop_lock"} :
          Call(t, op)
    \/ \E t \in Threads : Internal(t)

Spec == Init /\ [][Next]_vars

FairSpec == Init /\ [][Next]_vars /\ \A t \in Threads : WF_vars(Internal(t))

\* ------------------------------------- ExplorationService: approval pipeline
GatesOfType(gates, type) == {i \in 1..Len(gates) : gates[i].approval_type = type}

\* the state of docs/approval_pipeline_example.py before step 10: the one
\* exploration_summary gate is approved and the one scraper_generation gate
\* is pending
WorkflowReadyForScraperApproval(gates) ==
    /\ Cardinality(GatesOfType(gates, "exploration_summary")) = 1
    /\ Cardinality(GatesOfType(gates, "scraper_generation")) = 1
    /\ approval_map(gates, "exploration_summary").status = "approved"
    /\ approval_map(gates, "scraper_generation").status = "pending"

\* generate_specification: appends an exploration_summary gate
GenerateSpecification ==
    /\ Len(approval_gates) + Len(workers) < MaxGates
    /\ approval_gates' = Append(approval_gates, NewGate("exploration_summary"))
    /\ last_call' = CallRecord("generate_specification", "none", "none", FALSE, "success")
    /\ UNCHANGED << sessionVars, orchVars, storeVars, genVars, testVars, svcVars, generated_scrapers, current_scraper, workers >>

\* approve_exploration
ApproveExploration(action, actor) ==
    LET i == FirstGateIdx(approval_gates, "exploration_summary")
    IN /\ IF i = 0
          THEN /\ last_call' = CallRecord("approve_exploration", action, actor, FALSE,
                                          "No exploration approval gate found")
               /\ UNCHANGED approval_gates
          ELSE /\ approval_gates' =
                     [approval_gates EXCEPT ![i] = Decide(@, action, actor)]
               /\ last_call' = CallRecord("approve_exploration", action, actor, FALSE,
                                          "success")
       /\ UNCHANGED << sessionVars, orchVars, storeVars, genVars, testVars, svcVars, generated_scrapers, current_scraper, workers >>

\* generate_scraper with the worker started before the sequencing check
GenerateScraperStartsWorker(max_iter) ==
    LET seq == check_approval_sequencing(approval_gates, "scraper_generation")
    IN /\ Len(approval_gates) + Len(workers) < MaxGates
       /\ Len(workers) < MaxWorkers
       /\ workers' = Append(workers, max_iter)
       /\ last_call' = CallRecord("generate_scraper", "none", "none", FALSE,
                                  IF seq.valid THEN "success" ELSE seq.message)
       /\ UNCHANGED << sessionVars, orchVars, storeVars, genVars, testVars, svcVars, approval_gates, generated_scrapers,
                       current_scraper >>

\* generate_scraper: the sequencing check, then the start of the background
\* thread run_generation, which keeps the max_iterations argument
GenerateScraper(max_iter) ==
    LET seq == check_approval_sequencing(approval_gates, "scraper_generation")
    IN /\ IF ~seq.valid
          THEN /\ last_call' = CallRecord("generate_scraper", "none", "none", FALSE,
                                          seq.message)
               /\ UNCHANGED workers
          ELSE /\ Len(approval_gates) + Len(workers) < MaxGates
               /\ Len(workers) < MaxWorkers
               /\ workers' = Append(workers, max_iter)
               /\ last_call' = CallRecord("generate_scraper", "none", "none", FALSE,
                                          "success")
       /\ UNCHANGED << sessionVars, orchVars, storeVars, genVars, testVars, svcVars, approval_gates, generated_scrapers,
                       current_scraper >>

RemoveAt(s, i) == SubSeq(s, 1, i - 1) \o SubSeq(s, i + 1, Len(s))

MaxOf(a, b) == IF a >= b THEN a ELSE b

\* run_generation: generate_and_test_scraper, then the scraper is saved to the
\* session and the scraper_generation gate is appended
WorkerFinish(w) ==
    /\ w \in 1..Len(workers)
    /\ \E gens \in [1..MaxOf(1, workers[w]) -> BOOLEAN] :
       \E tests \in [1..workers[w] -> TestStatuses] :
         LET scraper == generate_and_test_scraper(Len(generated_scrapers) + 1,
                                                  workers[w], gens, tests)
         IN /\ generated_scrapers' = Append(generated_scrapers, scraper)
            /\ current_scraper' = scraper
    /\ approval_gates' = Append(approval_gates, NewGate("scraper_generation"))
    /\ workers' = RemoveAt(workers, w)
    /\ UNCHANGED << sessionVars, orchVars, storeVars, genVars, testVars, svcVars, last_call >>

\* approve_scraper
ApproveScraper(action, actor) ==
    LET seq == check_approval_sequencing(approval_gates, "final_delivery")
        i == FirstGateIdx(approval_gates, "scraper_generation")
        documented == WorkflowReadyForScraperApproval(approval_gates)
        decided == [approval_gates EXCEPT ![i] = Decide(@, action, actor)]
    IN /\ IF ~seq.valid
          THEN /\ last_call' = CallRecord("approve_scraper", action, actor, documented,
                                          seq.message)
               /\ UNCHANGED approval_gates
          ELSE IF i = 0
          THEN /\ last_call' = CallRecord("approve_scraper", action, actor, documented,
                                          "No scraper approval gate found")
               /\ UNCHANGED approval_gates
          ELSE /\ Len(approval_gates) + Len(workers) < MaxGates
               /\ approval_gates' =
                     IF action = "approve" /\ current_scraper # NoScraper
                     THEN Append(decided, NewGate("final_delivery"))
                     ELSE decided
               /\ last_call' = CallRecord("approve_scraper", action, actor, documented,
                                          "success")
       /\ UNCHANGED << sessionVars, orchVars, storeVars, genVars, testVars, svcVars, generated_scrapers, current_scraper, workers >>

\* download_scraper_package without the final_delivery gate check
DownloadScraperPackageUngated ==
    /\ last_call' =
          CallRecord("download_scraper_package", "none", "none", FALSE,
              IF current_scraper = NoScraper THEN "No scraper available" ELSE "package")
    /\ UNCHANGED << sessionVars, orchVars, storeVars, genVars, testVars, svcVars, approval_gates, generated_scrapers,
                    current_scraper, workers >>

\* download_scraper_package
DownloadScraperPackage ==
    LET delivery_approved ==
            \E i \in 1..Len(approval_gates) :
                /\ approval_gates[i].approval_type = "final_delivery"
                /\ approval_gates[i].status = "approved"
    IN /\ last_call' =
             CallRecord("download_scraper_package", "none", "none", FALSE,
                 IF ~delivery_approved
                 THEN "Final delivery must be approved before download"
                 ELSE IF current_scraper = NoScraper THEN "No scraper available"
                 ELSE "package")
       /\ UNCHANGED << sessionVars, orchVars, storeVars, genVars, testVars, svcVars, approval_gates, generated_scrapers,
                       current_scraper, workers >>

\* GeneratedScraper.to_dict, on the fields the model keeps
to_dict(scraper) ==
    [scraper_id |-> scraper.scraper_id,
     version |-> scraper.version,
     status |-> scraper.status,
     iteration_count |-> scraper.iteration_count,
     max_iterations |-> scraper.max_iterations,
     test_results |-> scraper.test_results,
     last_test_status |-> scraper.last_test_status]

\* run_test, "Reconstruct scraper from dict": the constructor receives
\* scraper_id, session_id, version, specification and code, the status is
\* assigned afterwards, every other field keeps its dataclass default
reconstruct_for_test(scraper_dict) ==
    [scraper_id |-> scraper_dict.scraper_id,
     version |-> scraper_dict.version,
     status |-> scraper_dict.status,
     iteration_count |-> 0,
     max_iterations |-> ScraperMaxIterations,
     test_results |-> << >>,
     last_test_status |-> "not_run"]

\* test_scraper: the check of current_scraper, then the start of the
\* background thread run_test
TestScraper ==
    /\ IF current_scraper = NoScraper
       THEN /\ last_call' = CallRecord("test_scraper", "none", "none", FALSE,
                                       "No scraper generated yet")
            /\ UNCHANGED testers
       ELSE /\ testers < MaxTesters
            /\ testers' = testers + 1
            /\ last_call' = CallRecord("test_scraper", "none", "none", FALSE, "success")
    /\ UNCHANGED << sessionVars, orchVars, storeVars, genVars, svcVars, approval_gates,
                    generated_scrapers, current_scraper, workers, tester_pc, temp_file,
                    process, tester_status >>

\* run_test that also records the test in the session's action log
TestFinishLogsTest(test_status) ==
    /\ testers > 0
    /\ LET scraper == reconstruct_for_test(current_scraper)
       IN current_scraper' = to_dict(add_test_result(scraper, test_status))
    /\ testers' = testers - 1
    /\ action_logs' = Append(action_logs, ActionLog("analysis", "Scraper tested", test_status))
    /\ UNCHANGED << statusVars, progressVars, max_iterations, orchVars, storeVars, genVars,
                    svcVars, approval_gates, generated_scrapers, workers, last_call,
                    tester_pc, temp_file, process, tester_status >>

\* run_test: the scraper is rebuilt from session.current_scraper, tested, the
\* result added, and its to_dict() stored as the session's current scraper
TestFinish(test_status) ==
    /\ testers > 0
    /\ LET scraper == reconstruct_for_test(current_scraper)
       IN current_scraper' = to_dict(add_test_result(scraper, test_status))
    /\ testers' = testers - 1
    /\ UNCHANGED << sessionVars, orchVars, storeVars, genVars, svcVars, approval_gates,
                    generated_scrapers, workers, last_call, tester_pc, temp_file,
                    process, tester_status >>

PipeNext ==
    \/ GenerateSpecification
    \/ \E action \in ApprovalActions : \E actor \in Actors : ApproveExploration(action, actor)
    \/ \E max_iter \in 1..MaxIterArg : GenerateScraper(max_iter)
    \/ \E w \in 1..MaxWorkers : WorkerFinish(w)
    \/ \E action \in ApprovalActions : \E actor \in Actors : ApproveScraper(action, actor)
    \/ DownloadScraperPackage
    \/ TestScraper
    \/ \E test_status \in {test_scraper(run) : run \in TestRuns} : TestFinish(test_status)

PipeSpec == Init /\ [][PipeNext]_vars

\* ------------------------- ApprovalPipeline.generate_and_test_scraper, stepwise
\* the call with its max_iterations argument, generate_scraper_code and the
\* first evaluation of range(max_iterations)
GenStart(max_iter, gen_ok) ==
    /\ gen_pc = "idle"
    /\ gen_max_iterations' = max_iter
    /\ gen_scraper' = generate_scraper_code(1, gen_ok)
    /\ gen_failed' = ~gen_ok
    /\ gen_iteration' = 0
    /\ gen_pc' = IF ~gen_ok \/ max_iter <= 0 THEN "done" ELSE "test"
    /\ UNCHANGED << sessionVars, orchVars, storeVars, approval_gates, generated_scrapers,
                    current_scraper, workers, last_call, testVars, svcVars,
                    test_run >>

\* one pass of the loop body up to the refinement: test_scraper,
\* add_test_result and the branch on the test status
GenTest(run) ==
    /\ gen_pc = "test"
    /\ test_run' = run
    /\ LET test_status == test_scraper(run)
           tested == add_test_result(gen_scraper, test_status)
       IN IF test_status = "passed"
          THEN /\ gen_scraper' = [tested EXCEPT !.status = "completed"]
               /\ gen_pc' = "done"
          ELSE IF gen_iteration < gen_max_iterations - 1
          THEN /\ gen_scraper' = tested
               /\ gen_pc' = "refine"
          ELSE /\ gen_scraper' = [tested EXCEPT !.status = "failed"]
               /\ gen_pc' = "done"
    /\ UNCHANGED << sessionVars, orchVars, storeVars, approval_gates, generated_scrapers,
                    current_scraper, workers, last_call, testVars, svcVars,
                    gen_iteration,
                    gen_max_iterations, gen_failed >>

\* refine_scraper and the break on a failed refinement
GenRefine(gen_ok) ==
    /\ gen_pc = "refine"
    /\ LET refined == refine_scraper(gen_scraper, gen_ok)
       IN /\ gen_scraper' = refined
          /\ gen_failed' = (gen_scraper.iteration_count < gen_scraper.max_iterations /\ ~gen_ok)
          /\ IF refined.status = "failed"
             THEN gen_pc' = "done" /\ UNCHANGED gen_iteration
             ELSE gen_pc' = "test" /\ gen_iteration' = gen_iteration + 1
    /\ UNCHANGED << sessionVars, orchVars, storeVars, approval_gates, generated_scrapers,
                    current_scraper, workers, last_call, testVars, svcVars,
                    gen_max_iterations, test_run >>

GenNext ==
    \/ \E max_iter \in 0..MaxGenIter : \E gen_ok \in BOOLEAN : GenStart(max_iter, gen_ok)
    \/ \E run \in TestRuns : GenTest(run)
    \/ \E gen_ok \in BOOLEAN : GenRefine(gen_ok)

GenSpec == Init /\ [][GenNext]_vars

\* ------------------------------------------- ScraperTester.test_scraper
\* everything test_scraper does not touch
outsideTester == << sessionVars, orchVars, storeVars, svcVars, approval_gates,
                    generated_scrapers, current_scraper, workers, last_call,
                    gen_scraper, gen_iteration, gen_max_iterations, gen_pc, gen_failed,
                    testers >>

\* a call of test_scraper: result.status = RUNNING; run is what the child
\* process and the assertions will do
TesterCall(run) ==
    /\ tester_pc \in {"idle", "returned"}
    /\ test_run' = run
    /\ tester_status' = "running"
    /\ temp_file' = "none"
    /\ process' = "none"
    /\ tester_pc' = "create"
    /\ UNCHANGED outsideTester

\* the with block: NamedTemporaryFile(delete=False) and f.write(scraper.code).
\* It stands before the inner try, so an exception raised in it goes straight
\* to the outer except clause; when the write (or the flush on close) raises,
\* the file has been created.
CreateTempFile ==
    /\ tester_pc = "create"
    /\ \/ /\ temp_file' = "exists"
          /\ tester_pc' = "spawn"
          /\ UNCHANGED tester_status
       \/ /\ temp_file' \in {"none", "exists"}
          /\ tester_status' = "error"
          /\ tester_pc' = "returned"
    /\ UNCHANGED << outsideTester, test_run, process >>

\* asyncio.create_subprocess_exec; an exception leaves through the finally
\* clause
SpawnProcess ==
    /\ tester_pc = "spawn"
    /\ \/ /\ process' = "running"
          /\ tester_pc' = "communicate"
       \/ /\ process' = "none"
          /\ tester_pc' = "finally_raised"
    /\ UNCHANGED << outsideTester, test_run, temp_file, tester_status >>

\* wait_for(process.communicate(), timeout) and what follows it in the try
\* block: on a timeout the child is killed and waited for; otherwise the
\* child has exited and the run is classified (stdout.decode may raise)
Communicate ==
    /\ tester_pc = "communicate"
    /\ IF test_run.timed_out
       THEN /\ process' = "reaped"
            /\ tester_status' = "error"
            /\ tester_pc' = "finally"
       ELSE /\ process' = "exited"
            /\ IF test_run.stdout = "undecodable"
               THEN /\ tester_pc' = "finally_raised"
                    /\ UNCHANGED tester_status
               ELSE /\ tester_status' = test_scraper(test_run)
                    /\ tester_pc' = "finally"
    /\ UNCHANGED << outsideTester, test_run, temp_file >>

\* the finally clause: scraper_path.unlink(), whose failure is logged and
\* swallowed; then the outer except clause when an exception is on its way
Cleanup ==
    /\ tester_pc \in {"finally", "finally_raised"}
    /\ temp_file' \in {"deleted", "exists"}
    /\ tester_status' = IF tester_pc = "finally_raised" THEN "error" ELSE tester_status
    /\ tester_pc' = "returned"
    /\ UNCHANGED << outsideTester, test_run, process >>

TesterNext ==
    \/ \E run \in TestRuns : TesterCall(run)
    \/ CreateTempFile
    \/ SpawnProcess
    \/ Communicate
    \/ Cleanup

TesterSpec == Init /\ [][TesterNext]_vars

\* ------------------------------------------------- ExplorationSessionStore
\* ExplorationService.start_exploration for the stored session: the lookups,
\* the is_running check, create_orchestrator (a new ExplorationOrchestrator
\* replaces the registered one) and the background thread t that will call
\* orchestrator.start_exploration. A start is taken only when no thread is
\* inside a method of the orchestrator being replaced.
ServiceStart(t) ==
    /\ pc[t] = "idle" /\ store_pc[t] = "idle"
    /\ calls < MaxStoreCalls
    /\ store_lock = NoThread
    /\ KnownId \in sessions
    /\ ~is_running
    /\ lock = NoThread
    /\ \A u \in Threads : pc[u] = "idle"
    /\ calls' = calls + 1
    /\ orchestrators' = orchestrators \cup {KnownId}
    /\ is_running' = FALSE
    /\ current_loop' = 0
    /\ completed_steps' = << >>
    /\ browser' = "idle"
    /\ plan' = NoPlan
    /\ step' = 0
    /\ dispatched' = << >>
    /\ pc' = [pc EXCEPT ![t] = "start_lock"]
    /\ result' = [result EXCEPT ![t] = "pending"]
    /\ ctx' = [ctx EXCEPT ![t] = Context]
    /\ UNCHANGED << sessionVars, approval_gates, generated_scrapers, current_scraper,
                    workers, last_call, genVars, testVars, svcVars, lock, stopped, sessions, store_lock,
                    store_pc, store_arg, store_ret, reader_pc >>

\* a caller invokes ExplorationSessionStore.delete_session(id)
DeleteCall(t, id) ==
    /\ pc[t] = "idle" /\ store_pc[t] = "idle"
    /\ calls < MaxStoreCalls
    /\ calls' = calls + 1
    /\ store_pc' = [store_pc EXCEPT ![t] = "delete"]
    /\ store_arg' = [store_arg EXCEPT ![t] = id]
    /\ store_ret' = [store_ret EXCEPT ![t] = "pending"]
    /\ UNCHANGED << sessionVars, approval_gates, generated_scrapers, current_scraper,
                    workers, last_call, genVars, testVars, svcVars, is_running, current_loop,
                    completed_steps, lock, browser, plan, step, pc, result, ctx,
                    stopped, dispatched, sessions, orchestrators, store_lock,
                    reader_pc >>

\* delete_session from `with self._lock` to the call of
\* orchestrator.stop_exploration(), or to its return when no orchestrator is
\* registered or the id is unknown
DeleteEnter(t) ==
    /\ store_pc[t] = "delete"
    /\ store_lock = NoThread
    /\ LET id == store_arg[t]
       IN IF id \in sessions /\ id \in orchestrators
          THEN /\ store_lock' = t
               /\ store_pc' = [store_pc EXCEPT ![t] = "delete_stop"]
               /\ pc' = [pc EXCEPT ![t] = "stop_lock"]
               /\ result' = [result EXCEPT ![t] = "pending"]
               /\ ctx' = [ctx EXCEPT ![t] = Context]
               /\ UNCHANGED << sessions, store_ret >>
          ELSE /\ sessions' = sessions \ {id}
               /\ store_ret' = [store_ret EXCEPT ![t] =
                                   IF id \in sessions THEN "true" ELSE "false"]
               /\ store_pc' = [store_pc EXCEPT ![t] = "idle"]
               /\ UNCHANGED << store_lock, pc, result, ctx >>
    /\ UNCHANGED << sessionVars, approval_gates, generated_scrapers, current_scraper,
                    workers, last_call, genVars, testVars, svcVars, is_running, current_loop,
                    completed_steps, lock, browser, plan, step, calls, stopped,
                    dispatched, orchestrators, store_arg, reader_pc >>

\* delete_session without the removal of the orchestrator
DeleteFinishKeepsOrchestrator(t) ==
    /\ store_pc[t] = "delete_stop"
    /\ pc[t] = "idle"
    /\ sessions' = sessions \ {store_arg[t]}
    /\ store_ret' = [store_ret EXCEPT ![t] = "true"]
    /\ store_lock' = NoThread
    /\ store_pc' = [store_pc EXCEPT ![t] = "idle"]
    /\ UNCHANGED << sessionVars, approval_gates, generated_scrapers, current_scraper,
                    workers, last_call, genVars, testVars, svcVars, orchVars, store_arg, reader_pc,
                    orchestrators >>

\* delete_session after stop_exploration has returned: both entries are
\* deleted and the store lock is released
DeleteFinish(t) ==
    /\ store_pc[t] = "delete_stop"
    /\ pc[t] = "idle"
    /\ orchestrators' = orchestrators \ {store_arg[t]}
    /\ sessions' = sessions \ {store_arg[t]}
    /\ store_ret' = [store_ret EXCEPT ![t] = "true"]
    /\ store_lock' = NoThread
    /\ store_pc' = [store_pc EXCEPT ![t] = "idle"]
    /\ UNCHANGED << sessionVars, approval_gates, generated_scrapers, current_scraper,
                    workers, last_call, genVars, testVars, svcVars, orchVars, store_arg, reader_pc >>

\* a client invokes ExplorationService.get_session_status for the stored id
StatusCall ==
    /\ reader_pc = "idle"
    /\ reader_pc' = "get_session"
    /\ UNCHANGED << sessionVars, approval_gates, generated_scrapers, current_scraper,
                    workers, last_call, genVars, testVars, svcVars, orchVars, sessions, orchestrators,
                    store_lock, store_pc, store_arg, store_ret >>

\* store.get_session under the store lock
StatusGetSession ==
    /\ reader_pc = "get_session"
    /\ store_lock = NoThread
    /\ IF KnownId \in sessions
       THEN reader_pc' = "get_orchestrator"
       ELSE reader_pc' = "idle"
    /\ UNCHANGED << sessionVars, approval_gates, generated_scrapers, current_scraper,
                    workers, last_call, genVars, testVars, svcVars, orchVars, sessions, orchestrators,
                    store_lock, store_pc, store_arg, store_ret >>

\* store.get_orchestrator under the store lock, then get_current_status or
\* session.to_dict, neither of which takes a lock
StatusGetOrchestrator ==
    /\ reader_pc = "get_orchestrator"
    /\ store_lock = NoThread
    /\ reader_pc' = "idle"
    /\ UNCHANGED << sessionVars, approval_gates, generated_scrapers, current_scraper,
                    workers, last_call, genVars, testVars, svcVars, orchVars, sessions, orchestrators,
                    store_lock, store_pc, store_arg, store_ret >>

StoreNext ==
    \/ \E t \in Threads : ServiceStart(t)
    \/ \E t \in Threads : StartEnter(t)
    \/ \E t \in Threads : CreatePlan(t)
    \/ \E t \in Threads : LoopHead(t)
    \/ \E t \in Threads : ExecStep(t)
    \/ \E t \in Threads : Synth(t)
    \/ \E t \in Threads : StopBody(t)
    \/ \E t \in Threads : \E id \in SessionIds : DeleteCall(t, id)
    \/ \E t \in Threads : DeleteEnter(t)
    \/ \E t \in Threads : DeleteFinish(t)
    \/ StatusCall
    \/ StatusGetSession
    \/ StatusGetOrchestrator

StoreSpec == Init /\ [][StoreNext]_vars

\* ------------------------- ExplorationService: control calls on one session
\* everything the control calls and the store calls below do not touch
outsideService == << max_iterations, orchVars, approval_gates, generated_scrapers,
                     current_scraper, workers, last_call, genVars, testVars,
                     orchestrators, store_pc, store_arg, store_ret, reader_pc >>

\* ExplorationOrchestrator.__init__: the state of a new orchestrator; run is
\* the position of the background thread run_exploration started for it
NewOrchestrator ==
    [is_running |-> FALSE, lock |-> NoThread, browser |-> "idle", run |-> "spawned"]

\* the action log of a run of the basic plan in which every step succeeds,
\* from the plan log to the completion log
CompletedRunLogs ==
    << ActionLog("plan_creation", "Exploration plan created", "none") >>
    \o StepLogs(BasicPlan[1]) \o << ActionLog("analysis", "Iteration completed", "ok") >>
    \o StepLogs(BasicPlan[2]) \o << ActionLog("analysis", "Iteration completed", "ok") >>
    \o StepLogs(BasicPlan[3]) \o << ActionLog("analysis", "Iteration completed", "ok") >>
    \o << ActionLog("analysis", "Final findings synthesis completed", "none"),
          ActionLog("analysis", "Exploration session completed", "none") >>

\* ExplorationService.start_exploration up to the is_running test: get_session,
\* get_orchestrator (each under the store lock) and the read of is_running,
\* which takes no lock
SvcStartCheck(t) ==
    /\ svc_pc[t] = "idle"
    /\ svc_calls < MaxSvcCalls
    /\ store_lock = NoThread
    /\ svc_calls' = svc_calls + 1
    /\ IF KnownId \notin sessions
       THEN UNCHANGED svc_pc
       ELSE IF registry # 0 /\ instances[registry].is_running
       THEN UNCHANGED svc_pc
       ELSE svc_pc' = [svc_pc EXCEPT ![t] = "start_create"]
    /\ UNCHANGED << outsideService, sessionVars, sessions, store_lock, instances,
                    registry, svc_ref, other_pc >>

\* the rest of ExplorationService.start_exploration: create_orchestrator
\* replaces the registry entry with a new orchestrator, and the background
\* thread that will call its start_exploration is started
SvcStartCreate(t) ==
    /\ svc_pc[t] = "start_create"
    /\ store_lock = NoThread
    /\ IF KnownId \notin sessions
       THEN UNCHANGED << instances, registry >>
       ELSE /\ Len(instances) < MaxInstances
            /\ instances' = Append(instances, NewOrchestrator)
            /\ registry' = Len(instances) + 1
    /\ svc_pc' = [svc_pc EXCEPT ![t] = "idle"]
    /\ UNCHANGED << outsideService, sessionVars, sessions, store_lock, svc_ref,
                    svc_calls, other_pc >>

\* the background thread of orchestrator o enters start_exploration: it
\* acquires the orchestrator's lock and tests is_running
RunEnter(o) ==
    /\ o \in 1..Len(instances)
    /\ instances[o].run = "spawned"
    /\ instances[o].lock = NoThread
    /\ IF instances[o].is_running
       THEN /\ instances' = [instances EXCEPT ![o].run = "returned"]
            /\ UNCHANGED sessionVars
       ELSE /\ instances' = [instances EXCEPT ![o].lock = "run",
                                              ![o].is_running = TRUE,
                                              ![o].browser = "initialized",
                                              ![o].run = "loop"]
            /\ update_status("running")
            /\ action_logs' = Append(action_logs,
                   ActionLog("plan_creation", "Exploration session started", "none"))
            /\ UNCHANGED << progressVars, max_iterations >>
    /\ UNCHANGED << outsideService, sessions, store_lock, registry, svc_pc, svc_ref,
                    svc_calls, other_pc >>

\* the run of orchestrator o from plan creation to the finally clause, as one
\* step (Spec has its steps): either the basic plan is executed to the end or
\* plan creation raises
RunFinish(o) ==
    /\ o \in 1..Len(instances)
    /\ instances[o].run = "loop"
    /\ \/ /\ update_status("completed")
          /\ update_progress(Len(BasicPlan), Len(BasicPlan))
          /\ action_logs' = action_logs \o CompletedRunLogs
       \/ /\ update_status("failed")
          /\ action_logs' = Append(action_logs,
                 ActionLog("error", "Exploration session failed", "none"))
          /\ UNCHANGED progressVars
    /\ instances' = [instances EXCEPT ![o].lock = NoThread,
                                      ![o].is_running = FALSE,
                                      ![o].browser = "closed",
                                      ![o].run = "returned"]
    /\ UNCHANGED << outsideService, sessions, store_lock, registry, svc_pc, svc_ref,
                    svc_calls, other_pc >>

\* ExplorationService.pause_exploration / resume_exploration /
\* stop_exploration: get_orchestrator, then the call of the orchestrator's
\* method, whose body begins at `with self.lock`
SvcCall(t, op) ==
    /\ svc_pc[t] = "idle"
    /\ svc_calls < MaxSvcCalls
    /\ store_lock = NoThread
    /\ svc_calls' = svc_calls + 1
    /\ IF registry = 0
       THEN UNCHANGED << svc_pc, svc_ref >>
       ELSE /\ svc_pc' = [svc_pc EXCEPT ![t] = op]
            /\ svc_ref' = [svc_ref EXCEPT ![t] = registry]
    /\ UNCHANGED << outsideService, sessionVars, sessions, store_lock, instances,
                    registry, other_pc >>

\* where a thread is after it has acquired the orchestrator's lock
Critical(p) ==
    CASE p = "pause_lock" -> "pause_cs"
      [] p = "resume_lock" -> "resume_cs"
      [] p = "stop_lock" -> "stop_cs"
      [] p = "remove_stop_lock" -> "remove_stop_cs"
      [] p = "delete_stop_lock" -> "delete_stop_cs"

\* `with self.lock` of pause_exploration, resume_exploration and
\* stop_exploration
ControlEnter(t) ==
    /\ svc_pc[t] \in {"pause_lock", "resume_lock", "stop_lock", "remove_stop_lock",
                      "delete_stop_lock"}
    /\ instances[svc_ref[t]].lock = NoThread
    /\ instances' = [instances EXCEPT ![svc_ref[t]].lock = t]
    /\ svc_pc' = [svc_pc EXCEPT ![t] = Critical(svc_pc[t])]
    /\ UNCHANGED << outsideService, sessionVars, sessions, store_lock, registry,
                    svc_ref, svc_calls, other_pc >>

\* the body of pause_exploration
PauseExit(t) ==
    /\ svc_pc[t] = "pause_cs"
    /\ instances' = [instances EXCEPT ![svc_ref[t]].is_running = FALSE,
                                      ![svc_ref[t]].lock = NoThread]
    /\ update_status("paused")
    /\ action_logs' = Append(action_logs,
           ActionLog("plan_creation", "Exploration session paused", "none"))
    /\ svc_pc' = [svc_pc EXCEPT ![t] = "idle"]
    /\ UNCHANGED << outsideService, progressVars, max_iterations, sessions, store_lock,
                    registry, svc_ref, svc_calls, other_pc >>

\* the body of resume_exploration: on a paused session it calls
\* self.start_exploration() with the lock held, and waits there for the lock
ResumeExit(t) ==
    /\ svc_pc[t] = "resume_cs"
    /\ IF status # "paused"
       THEN /\ instances' = [instances EXCEPT ![svc_ref[t]].lock = NoThread]
            /\ svc_pc' = [svc_pc EXCEPT ![t] = "idle"]
            /\ UNCHANGED sessionVars
       ELSE /\ instances' = [instances EXCEPT ![svc_ref[t]].is_running = TRUE]
            /\ update_status("running")
            /\ action_logs' = Append(action_logs,
                   ActionLog("plan_creation", "Exploration session resumed", "none"))
            /\ svc_pc' = [svc_pc EXCEPT ![t] = "resume_start"]
            /\ UNCHANGED << progressVars, max_iterations >>
    /\ UNCHANGED << outsideService, sessions, store_lock, registry, svc_ref, svc_calls,
                    other_pc >>

\* what the body of stop_exploration does to the orchestrator and the session
StopEffects(o) ==
    /\ instances' = [instances EXCEPT ![o].is_running = FALSE,
                                      ![o].browser = "closed",
                                      ![o].lock = NoThread]
    /\ update_status("cancelled")
    /\ action_logs' = Append(action_logs,
           ActionLog("error", "Exploration session stopped by user", "none"))
    /\ UNCHANGED << progressVars, max_iterations >>

\* the body of orchestrator.stop_exploration() called by
\* ExplorationService.stop_exploration; store.remove_orchestrator follows
StopExit(t) ==
    /\ svc_pc[t] = "stop_cs"
    /\ StopEffects(svc_ref[t])
    /\ svc_pc' = [svc_pc EXCEPT ![t] = "remove_lock"]
    /\ UNCHANGED << outsideService, sessions, store_lock, registry, svc_ref, svc_calls,
                    other_pc >>

\* remove_orchestrator: it takes the store lock and, when the session has a
\* registry entry, calls stop_exploration() on it with the store lock held
RemoveEnter(t) ==
    /\ svc_pc[t] = "remove_lock"
    /\ store_lock = NoThread
    /\ IF registry = 0
       THEN /\ svc_pc' = [svc_pc EXCEPT ![t] = "idle"]
            /\ UNCHANGED << store_lock, svc_ref >>
       ELSE /\ store_lock' = t
            /\ svc_ref' = [svc_ref EXCEPT ![t] = registry]
            /\ svc_pc' = [svc_pc EXCEPT ![t] = "remove_stop_lock"]
    /\ UNCHANGED << outsideService, sessionVars, sessions, instances, registry,
                    svc_calls, other_pc >>

\* the stop inside remove_orchestrator, then the entry is deleted and the
\* store lock released
RemoveExit(t) ==
    /\ svc_pc[t] = "remove_stop_cs"
    /\ StopEffects(svc_ref[t])
    /\ registry' = 0
    /\ store_lock' = NoThread
    /\ svc_pc' = [svc_pc EXCEPT ![t] = "idle"]
    /\ UNCHANGED << outsideService, sessions, svc_ref, svc_calls, other_pc >>

\* ExplorationService.delete_session -> store.delete_session: it takes the
\* store lock and stops the session's orchestrator with the store lock held
SvcDelete(t) ==
    /\ svc_pc[t] = "idle"
    /\ svc_calls < MaxSvcCalls
    /\ store_lock = NoThread
    /\ svc_calls' = svc_calls + 1
    /\ IF KnownId \notin sessions
       THEN UNCHANGED << sessions, store_lock, svc_pc, svc_ref >>
       ELSE IF registry = 0
       THEN /\ sessions' = sessions \ {KnownId}
            /\ UNCHANGED << store_lock, svc_pc, svc_ref >>
       ELSE /\ store_lock' = t
            /\ svc_ref' = [svc_ref EXCEPT ![t] = registry]
            /\ svc_pc' = [svc_pc EXCEPT ![t] = "delete_stop_lock"]
            /\ UNCHANGED sessions
    /\ UNCHANGED << outsideService, sessionVars, instances, registry, other_pc >>

\* the stop inside delete_session, then orchestrator and session are deleted
\* and the store lock released
DeleteExit(t) ==
    /\ svc_pc[t] = "delete_stop_cs"
    /\ StopEffects(svc_ref[t])
    /\ registry' = 0
    /\ sessions' = sessions \ {KnownId}
    /\ store_lock' = NoThread
    /\ svc_pc' = [svc_pc EXCEPT ![t] = "idle"]
    /\ UNCHANGED << outsideService, svc_ref, svc_calls, other_pc >>

\* the client of another session calls a store operation (create_session,
\* get_session, list_sessions, or delete_session of its own session, which
\* has no orchestrator): the operation begins at `with self._lock`
OtherCall ==
    /\ other_pc = "idle"
    /\ other_pc' = "store_lock"
    /\ UNCHANGED << outsideService, sessionVars, sessions, store_lock, instances,
                    registry, svc_pc, svc_ref, svc_calls >>

\* that operation acquires the store lock, does its work and returns
OtherReturn ==
    /\ other_pc = "store_lock"
    /\ store_lock = NoThread
    /\ other_pc' = "idle"
    /\ UNCHANGED << outsideService, sessionVars, sessions, store_lock, instances,
                    registry, svc_pc, svc_ref, svc_calls >>

ServiceNext ==
    \/ \E t \in Threads : SvcStartCheck(t) \/ SvcStartCreate(t)
    \/ \E o \in 1..MaxInstances : RunEnter(o) \/ RunFinish(o)
    \/ \E t \in Threads : \E op \in {"pause_lock", "resume_lock", "stop_lock"} : SvcCall(t, op)
    \/ \E t \in Threads : ControlEnter(t)
    \/ \E t \in Threads : PauseExit(t) \/ ResumeExit(t) \/ StopExit(t)
    \/ \E t \in Threads : RemoveEnter(t) \/ RemoveExit(t)
    \/ \E t \in Threads : SvcDelete(t) \/ DeleteExit(t)
    \/ OtherCall
    \/ OtherReturn

ServiceSpec == Init /\ [][ServiceNext]_vars

\* ------------------------------------------------------------------ claims

\* C1: a start_exploration invoked while the exploration loop is running
\* returns the 'already running' error and leaves current_loop,
\* completed_steps and the action log unchanged.
StartWhileRunningRejected ==
    [][\A t \in Threads :
          (pc[t] = "start_lock" /\ ctx[t] # "idle" /\ pc'[t] # "start_lock")
             => /\ result'[t] = "already_running"
                /\ UNCHANGED << current_loop, completed_steps, action_logs >>]_vars

\* C2: a resume_exploration that found the session paused, flipped is_running
\* and the status and re-entered start_exploration eventually returns.
ResumeReentersStartAndReturns ==
    \A t \in Threads : (pc[t] = "start_lock" /\ lock = t) ~> (pc[t] = "idle")

\* C3: once stop_exploration has been invoked while a step is in flight and
\* further plan steps are pending, the loop dispatches no further step.
StopMidLoopHaltsDispatch ==
    [][(\E t \in Threads : pc[t] = "stop_lock" /\ ctx[t] = "inflight")
          => ~(\E u \in Threads : pc[u] = "loop" /\ pc'[u] = "exec")]_vars

\* C4: the orchestrator mutex is not held while a step's capability call is
\* in progress, so a pause or stop issued then can acquire it.
MutexFreeDuringCapabilityCall ==
    \A t \in Threads : pc[t] = "exec" => lock = NoThread

Rank(s) == IF s = "created" THEN 0 ELSE IF s \in Terminal THEN 2 ELSE 1

\* C5: the session status is monotone: it never goes back to created, and once
\* completed, failed or cancelled it never becomes created, running or paused.
StatusMonotone == [][Rank(status') >= Rank(status)]_vars

\* C6: after stop_exploration has set the status to cancelled, pause and resume
\* calls alone never bring the status back to running.
StopIsTerminal == stopped => status # "running"

\* C7: check_approval_sequencing for scraper generation is ineligible while the
\* session has no exploration_summary gate, eligible right after a successful
\* approve_exploration(approve), and ineligible after a successful
\* approve_exploration(reject).
SequencingFollowsExplorationDecision ==
    LET seq == check_approval_sequencing(approval_gates, "scraper_generation")
        decided == last_call.op = "approve_exploration" /\ last_call.result = "success"
    IN /\ GatesOfType(approval_gates, "exploration_summary") = {} => ~seq.valid
       /\ (decided /\ last_call.action = "approve") => seq.valid
       /\ (decided /\ last_call.action = "reject") => ~seq.valid

SomeApproved(gates, type) ==
    \E i \in GatesOfType(gates, type) : gates[i].status = "approved"

\* C8: at the moment a scraper_generation gate is appended an
\* exploration_summary gate of the session is approved, and at the moment a
\* final_delivery gate is appended a scraper_generation gate is approved.
GateAppendedOnlyAfterPriorApproved ==
    [][Len(approval_gates') > Len(approval_gates) =>
         LET g == approval_gates'[Len(approval_gates')]
         IN /\ g.approval_type = "scraper_generation" =>
                  SomeApproved(approval_gates, "exploration_summary")
            /\ g.approval_type = "final_delivery" =>
                  SomeApproved(approval_gates', "scraper_generation")]_vars

KindRank(type) ==
    IF type = "exploration_summary" THEN 1
    ELSE IF type = "scraper_generation" THEN 2 ELSE 3

\* C9: the approval_gates list is strictly ordered by kind, so it holds at most
\* one gate of each kind.
GatesStrictlyOrdered ==
    \A i, j \in 1..Len(approval_gates) :
        i < j => KindRank(approval_gates[i].approval_type)
                   < KindRank(approval_gates[j].approval_type)

\* C10: approve_scraper(approve) called with the exploration_summary gate
\* approved and the scraper_generation gate pending succeeds and leaves that
\* gate approved by the actor.
DocumentedScraperApprovalSucceeds ==
    (last_call.op = "approve_scraper" /\ last_call.action = "approve" /\ last_call.documented)
       => /\ last_call.result = "success"
          /\ LET g == approval_map(approval_gates, "scraper_generation")
             IN g.status = "approved" /\ g.approved_by = last_call.actor

\* C11: download_scraper_package returns a package only if, at the call, the
\* session holds an approved final_delivery gate and a current scraper; in
\* every other state it returns an error.
DownloadOnlyAfterFinalDelivery ==
    [][(last_call' # last_call /\ last_call'.op = "download_scraper_package") =>
         LET ready == /\ SomeApproved(approval_gates, "final_delivery")
                      /\ current_scraper # NoScraper
         IN /\ last_call'.result = "package" => ready
            /\ ~ready => last_call'.result \in
                            {"Final delivery must be approved before download",
                             "No scraper available"}]_vars

\* a download was refused although the session has a current scraper
DownloadRefusedWithScraper ==
    /\ last_call.op = "download_scraper_package"
    /\ last_call.result = "Final delivery must be approved before download"
    /\ current_scraper # NoScraper

SequencingReasons ==
    {"Exploration summary must be created first",
     "Exploration summary must be approved before scraper generation",
     "Exploration summary must be approved first",
     "Scraper generation must be approved before final delivery"}

\* C12: a generate_scraper or approve_scraper call made while the sequencing
\* check fails returns an error with a reason string, starts no background
\* worker and leaves the gates, the artifacts, the current scraper and the
\* session status unchanged.
RejectedPipelineCallChangesNothing ==
    [][(/\ last_call' # last_call
        /\ \/ /\ last_call'.op = "generate_scraper"
              /\ ~check_approval_sequencing(approval_gates, "scraper_generation").valid
           \/ /\ last_call'.op = "approve_scraper"
              /\ ~check_approval_sequencing(approval_gates, "final_delivery").valid)
          => /\ last_call'.result \in SequencingReasons
             /\ UNCHANGED << approval_gates, generated_scrapers, current_scraper,
                             workers, status >>]_vars

\* generate_scraper was rejected on a session whose exploration gate exists
\* but is not approved
GenerateScraperRejected ==
    /\ last_call.op = "generate_scraper"
    /\ last_call.result = "Exploration summary must be approved before scraper generation"
    /\ approval_gates # << >>

NoTestPassed(scraper) ==
    \A i \in 1..Len(scraper.test_results) : scraper.test_results[i] # "passed"

\* C13: during and after generate_and_test_scraper, for every max_iterations
\* argument, the artifact's iteration_count never exceeds max_iterations, and
\* when the run has used up its max_iterations tests without a passed result
\* the artifact's status is failed.
IterationBoundRespected ==
    gen_pc # "idle" =>
       /\ gen_scraper.iteration_count <= gen_max_iterations
       /\ (/\ gen_pc = "done"
           /\ Len(gen_scraper.test_results) >= gen_max_iterations
           /\ NoTestPassed(gen_scraper))
             => gen_scraper.status = "failed"

\* the run returned with every code generation succeeded and no test passed
AllTestsFailed ==
    /\ gen_pc = "done"
    /\ ~gen_failed
    /\ NoTestPassed(gen_scraper)

\* C14 as stated: when every test iteration fails, the artifact returned for
\* max_iterations = N >= 1 has status failed, iteration_count N and N test
\* results.
AllFailingRunCountsN ==
    (AllTestsFailed /\ gen_max_iterations >= 1) =>
       /\ gen_scraper.status = "failed"
       /\ gen_scraper.iteration_count = gen_max_iterations
       /\ Len(gen_scraper.test_results) = gen_max_iterations

MinOf(a, b) == IF a <= b THEN a ELSE b

\* C14 amended: when every code generation succeeds and every test iteration
\* fails, the artifact returned for max_iterations = N >= 1 has status failed,
\* iteration_count min(N - 1, 5) and min(N, 6) test results.
AllFailingRunCountsRefinements ==
    (AllTestsFailed /\ gen_max_iterations >= 1) =>
       /\ gen_scraper.status = "failed"
       /\ gen_scraper.iteration_count =
             MinOf(gen_max_iterations - 1, ScraperMaxIterations)
       /\ Len(gen_scraper.test_results) =
             MinOf(gen_max_iterations, ScraperMaxIterations + 1)

\* five failing tests out of five: the spec's scenario
FiveOfFiveFailed ==
    /\ AllTestsFailed
    /\ gen_max_iterations = 5
    /\ Len(gen_scraper.test_results) = 5

\* C15: version and iteration_count move together: the first generated
\* artifact has version 1 and iteration_count 0, refine_scraper and
\* increment_version raise both by exactly 1, so version = iteration_count + 1
\* for every artifact of generate_and_test_scraper.
VersionTracksIterationCount ==
    gen_pc # "idle" =>
       /\ gen_scraper.version = gen_scraper.iteration_count + 1
       /\ gen_scraper.test_results = << >> =>
             (gen_scraper.version = 1 /\ gen_scraper.iteration_count = 0)
       /\ gen_scraper.iteration_count \in {gen_iteration, gen_iteration + 1}
       /\ LET s == increment_version(gen_scraper)
          IN /\ s.version = gen_scraper.version + 1
             /\ s.iteration_count = gen_scraper.iteration_count + 1

\* an artifact that went through two refinements and was tested again
RefinedTwice ==
    /\ gen_scraper.iteration_count = 2
    /\ Len(gen_scraper.test_results) = 3

ReadyIdx ==
    LET done == {completed_steps[k] : k \in 1..Len(completed_steps)}
    IN {i \in 1..Len(plan) : plan[i].step_id \notin done /\ plan[i].dependencies \subseteq done}

\* C17: select_next_action picks, among the plan steps that are not completed,
\* the one with the smallest step id whose dependencies are all completed, and
\* nothing when there is no such step; the choice depends on the plan and the
\* completed set only.
SelectsFirstReadyStep ==
    [][\A t \in Threads :
          (pc[t] = "loop" /\ pc'[t] # "loop" /\ LoopGuard) =>
             IF ReadyIdx = {}
             THEN pc'[t] = "synth" /\ dispatched' = dispatched
             ELSE /\ pc'[t] = "exec"
                  /\ step' \in ReadyIdx
                  /\ \A i \in ReadyIdx : plan[step'].step_id <= plan[i].step_id
                  /\ dispatched' = Append(dispatched, plan[step'].step_id)]_vars

\* step 3 was selected while step 2, which waits for it, is still pending
LaterStepSelectedFirst ==
    /\ \E t \in Threads : pc[t] = "exec"
    /\ plan = ForwardRefPlan
    /\ step = 3
    /\ completed_steps = << 1 >>

\* the run that is returning started on an orchestrator without completed steps
FreshRun == Len(completed_steps) = Len(dispatched)

\* C18: for a plan of n steps without dependencies and max_iterations >= n, a
\* start_exploration that runs to its end on a fresh orchestrator has
\* dispatched every step once in id order, ends with completed_steps = [1..n],
\* appends the final synthesis log and leaves the status completed.
NoDepsRunCompletesEveryStep ==
    [][\A t \in Threads :
          (/\ pc[t] = "synth" /\ pc'[t] = "idle"
           /\ plan = NoDepsPlan /\ max_iterations >= Len(plan)
           /\ FreshRun)
             => /\ dispatched = [i \in 1..Len(plan) |-> i]
                /\ completed_steps' = [i \in 1..Len(plan) |-> i]
                /\ action_logs'[Len(action_logs) + 1].description =
                      "Final findings synthesis completed"
                /\ status' = "completed"
                /\ result'[t] = "completed"]_vars

\* start_exploration has returned from a run over the dependency-free plan
NoDepsRunReturned ==
    /\ \E t \in Threads : result[t] = "completed" /\ pc[t] = "idle"
    /\ plan = NoDepsPlan
    /\ max_iterations = 10
    /\ dispatched = << 1, 2, 3 >>
    /\ status = "completed"

\* C19: for a 3-step plan in which step 2 depends on step 3, a
\* start_exploration on a fresh orchestrator halts the loop after step 1 and
\* returns with total_steps = 3 and current_step = 1.
ForwardRefRunStopsAfterStepOne ==
    [][\A t \in Threads :
          (/\ pc[t] = "synth" /\ pc'[t] = "idle"
           /\ Len(plan) = 3 /\ 3 \in plan[2].dependencies
           /\ FreshRun)
             => /\ dispatched = << 1 >>
                /\ total_steps' = 3
                /\ current_step' = 1]_vars

\* C20: in a run of start_exploration the loop counter never exceeds
\* min(max_iterations, number of plan steps), no more steps are dispatched than
\* the counter says, and every pass through the loop body raises the counter,
\* so the loop ends.
LoopCounterBounded ==
    [][\A t \in Threads :
          /\ pc'[t] \in {"loop", "exec", "synth"} =>
                /\ current_loop' <= MinOf(max_iterations', Len(plan'))
                /\ Len(dispatched') <= current_loop'
          /\ (pc[t] = "loop" /\ pc'[t] = "exec") => current_loop' = current_loop + 1
          /\ (pc[t] = "exec" /\ pc'[t] = "loop") => current_loop' = current_loop]_vars

\* the loop left by the max_iterations bound with a plan step still pending
LoopStoppedByMaxIterations ==
    /\ \E t \in Threads : pc[t] = "synth"
    /\ max_iterations = 2
    /\ current_loop = 2
    /\ Len(plan) = 3
    /\ Len(dispatched) = 2

\* C21: a capability call that raises for a dispatched step does not end the
\* run: the loop goes on with the next step and the session does not become
\* failed.
StepExceptionIsContained ==
    [][\A t \in Threads :
          pc[t] = "exec" => (pc'[t] \in {"exec", "loop"} /\ status' # "failed")]_vars

\* C22: when plan creation or the loop raises inside start_exploration the
\* status becomes failed, an error log entry is appended, the error is
\* returned, is_running is false afterwards and no run is started again.
LoopFailureReported ==
    [][\A t \in Threads :
          (pc[t] \in {"plan", "exec"} /\ pc'[t] = "idle") =>
             /\ status' = "failed"
             /\ action_logs' = Append(action_logs,
                    ActionLog("error", "Exploration session failed", "none"))
             /\ result'[t] = "failed"
             /\ ~is_running'
             /\ \A u \in Threads : pc'[u] \notin {"plan", "loop", "exec", "synth"}]_vars

\* plan creation raised in the first run of the session
PlanCreationFailed ==
    /\ \E t \in Threads : result[t] = "failed" /\ pc[t] = "idle"
    /\ status = "failed"
    /\ plan = NoPlan
    /\ ~is_running

\* C23: whenever a start_exploration call that entered the running state
\* returns, with success or failure, the browser agent has been closed.
BrowserClosedOnReturn ==
    [][\A t \in Threads : (InLoop(t) /\ pc'[t] = "idle") => browser' = "closed"]_vars

\* a completed run has returned and the browser agent is closed
CompletedRunClosedBrowser ==
    /\ \E t \in Threads : result[t] = "completed" /\ pc[t] = "idle"
    /\ status = "completed"
    /\ browser = "closed"
    /\ lock = NoThread

\* C24: completed_at is written once, on the first entry to a terminal
\* status, and never overwritten afterwards.
CompletedAtSetOnce == [][completed_at # 0 => completed_at' = completed_at]_vars

\* C25: started_at is set on the first entry to status running and keeps that
\* value across every later pause, resume, restart or stop.
StartedAtSetOnce ==
    [][/\ started_at # 0 => started_at' = started_at
       /\ (started_at = 0 /\ status' = "running") => started_at' # 0
       /\ started_at' # started_at => status' = "running"]_vars

\* the session is running again after it had reached a terminal status
RestartedAfterTerminal ==
    /\ status = "running"
    /\ completed_at > 0
    /\ started_at = 1

\* C26: resume_exploration on a session whose status is not paused returns the
\* error and leaves status, is_running, completed_steps and the action log
\* unchanged.
ResumeNotPausedRejected ==
    [][\A t \in Threads :
          (pc[t] = "resume_lock" /\ pc'[t] # "resume_lock" /\ status # "paused") =>
             /\ result'[t] = "not_paused"
             /\ pc'[t] = "idle"
             /\ UNCHANGED << status, is_running, completed_steps, action_logs, lock >>]_vars

\* a resume was rejected on a session that has completed
ResumeRejectedOnCompleted ==
    /\ \E t \in Threads : result[t] = "not_paused" /\ pc[t] = "idle"
    /\ status = "completed"

\* C28: stop_exploration on an orchestrator that is not running is a no-op:
\* status, completed_at and the action log stay as they are.
StopWhenNotRunningIsNoOp ==
    [][\A t \in Threads :
          (pc[t] = "stop_lock" /\ pc'[t] = "idle" /\ ~is_running) =>
             UNCHANGED << status, completed_at, action_logs >>]_vars

\* C30: test_scraper gives every run one of error, failed, passed: error when
\* the run timed out, exited non-zero or its output failed to parse; failed
\* when the exit was clean, the output parsed and an assertion did not pass;
\* passed only when the exit was clean, the output parsed and every assertion
\* passed.
TestStatusClassifiesRun ==
    gen_scraper.test_results # << >> =>
       LET st == gen_scraper.test_results[Len(gen_scraper.test_results)]
           clean == ~test_run.timed_out /\ test_run.returncode = 0
           parsed == test_run.stdout = "json"
           parse_failed == test_run.stdout \in {"invalid", "undecodable"}
           all_passed == \A i \in 1..Len(test_run.assertions) : test_run.assertions[i]
       IN /\ st \in {"error", "failed", "passed"}
          /\ (test_run.timed_out \/ test_run.returncode # 0 \/ parse_failed) => st = "error"
          /\ (clean /\ parsed /\ ~all_passed) => st = "failed"
          /\ st = "passed" => (clean /\ parsed /\ all_passed)

\* C27: delete_session for a stored id first stops the registered
\* orchestrator, then removes the session and the orchestrator and returns
\* true; for an unknown id it returns false and leaves the store unchanged.
DeleteSessionRemovesBoth ==
    [][\A t \in Threads :
          LET id == store_arg[t]
          IN /\ (store_pc[t] = "delete" /\ store_pc'[t] # "delete") =>
                   IF id \in sessions
                   THEN IF id \in orchestrators
                        THEN /\ pc'[t] = "stop_lock"
                             /\ UNCHANGED << sessions, orchestrators >>
                        ELSE /\ store_ret'[t] = "true"
                             /\ id \notin sessions' /\ id \notin orchestrators'
                   ELSE /\ store_ret'[t] = "false"
                        /\ UNCHANGED << sessions, orchestrators >>
             /\ (store_pc[t] = "delete_stop" /\ store_pc'[t] # "delete_stop") =>
                   /\ result[t] = "cancelled"
                   /\ store_ret'[t] = "true"
                   /\ id \notin sessions' /\ id \notin orchestrators']_vars

\* a session with a registered orchestrator has been deleted
SessionWithOrchestratorDeleted ==
    /\ \E t \in Threads : store_ret[t] = "true" /\ result[t] = "cancelled"
    /\ sessions = {}
    /\ orchestrators = {}
    /\ status = "cancelled"

\* C29: get_session_status never waits for the exploration loop: while a loop
\* is running, a caller inside get_session_status does not find the store
\* lock held.
StatusReadNeverWaitsForLoop ==
    (reader_pc # "idle" /\ \E u \in Threads : InLoop(u)) => store_lock = NoThread

\* C36: whenever the capability call of a dispatched step returns a failure
\* result (success false), the step leaves an entry of kind error in the
\* session's action log.
FailedStepLeavesErrorLog ==
    [][\A t \in Threads :
          (/\ pc[t] = "exec"
           /\ pc'[t] = "loop"
           /\ action_logs'[Len(action_logs')].details = "fail")
          => \E i \in (Len(action_logs) + 1)..Len(action_logs') :
                action_logs'[i].action_type = "error"]_vars

\* C38: whenever the session's status is completed, every step of the plan
\* has been executed: completed_steps has total_steps entries and
\* current_step equals the number of completed steps.
CompletedMeansAllStepsDone ==
    status = "completed" =>
       /\ Len(completed_steps) = total_steps
       /\ current_step = Len(completed_steps)

\* completed_steps holds no step id twice
NoDuplicates(s) == \A i, j \in 1..Len(s) : s[i] = s[j] => i = j

\* the dependencies of the plan step with identifier id
DepsOf(p, id) == UNION {p[i].dependencies : i \in {k \in 1..Len(p) : p[k].step_id = id}}

\* C39: for a plan with distinct step ids, under any sequence of start, pause,
\* resume and stop on the orchestrator, completed_steps never holds a step id
\* twice, and a step id is appended only when all its dependencies are
\* already in completed_steps.
CompletedStepsRespectDependencies ==
    [][completed_steps' # completed_steps =>
          \E id \in 1..3 :
             /\ completed_steps' = Append(completed_steps, id)
             /\ NoDuplicates(completed_steps')
             /\ \A d \in DepsOf(plan, id) : InSeq(d, completed_steps)]_vars

\* a second run on the same orchestrator has appended a step after the
\* steps completed by the first run
SecondRunAppendedStep ==
    /\ Len(completed_steps) = 3
    /\ Len(dispatched) = 1
    /\ \E t \in Threads : pc[t] = "loop"

\* C40: generate_and_test_scraper returns an artifact with status completed
\* only if its last recorded test result is passed, for every max_iterations
\* argument including 0, and it has run at most max_iterations tests.
CompletedOnlyAfterPassedTest ==
    gen_pc = "done" =>
       /\ Len(gen_scraper.test_results) <= gen_max_iterations
       /\ gen_scraper.status = "completed" =>
             /\ Len(gen_scraper.test_results) > 0
             /\ gen_scraper.test_results[Len(gen_scraper.test_results)] = "passed"

\* C32: after the run_test thread of ExplorationService.test_scraper has
\* completed, the session's current scraper still has its earlier version,
\* status and iteration_count and all its earlier test results in order,
\* followed by the new result.
TestKeepsScraperHistory ==
    [][testers' < testers =>
          /\ current_scraper'.version = current_scraper.version
          /\ current_scraper'.status = current_scraper.status
          /\ current_scraper'.iteration_count = current_scraper.iteration_count
          /\ \E test_status \in TestStatuses :
                current_scraper'.test_results =
                   Append(current_scraper.test_results, test_status)]_vars

\* C35: the session's current scraper is either null or one of the entries
\* of generated_scrapers.
CurrentScraperIsGenerated ==
    current_scraper = NoScraper \/ InSeq(current_scraper, generated_scrapers)

TempFileDeletedOnReturn ==
    tester_pc = "returned" =>
       /\ temp_file # "exists"
       /\ process # "running"
       /\ (test_run.timed_out /\ process # "none") => process = "reaped"

\* the orchestrators of the session whose exploration loop is executing
LoopsExecuting == {o \in 1..Len(instances) : instances[o].run = "loop"}

\* the threads inside the critical section of pause, resume or stop
InCriticalSection ==
    {t \in Threads : svc_pc[t] \in {"pause_cs", "resume_cs", "resume_start", "stop_cs",
                                    "remove_stop_cs", "delete_stop_cs"}}

\* C33: under every interleaving of ExplorationService start, pause, resume
\* and stop calls for one session id, at most one exploration loop is
\* executing on the session, no two control operations are inside their
\* critical section at once, and none is while a loop executes.
LoopAndControlsExclusive ==
    Cardinality(LoopsExecuting) + Cardinality(InCriticalSection) <= 1

\* C34: a store operation of another session never has to wait for the
\* exploration loop or a blocked control operation of this session: it never
\* waits for the store lock while the holder of the store lock is itself
\* waiting for the lock of this session's orchestrator.
StoreCallNeverWaitsForOtherSession ==
    ~(/\ other_pc = "store_lock"
      /\ \E t \in Threads :
            /\ store_lock = t
            /\ svc_pc[t] \in {"remove_stop_lock", "delete_stop_lock"}
            /\ instances[svc_ref[t]].lock # NoThread)

====
